---------------------------- MODULE Spec2Model ----------------------------
(***************************************************************************)
(* A model of restore-archived-project (src/src/main.py, src/src/globals.py).*)
(*                                                                         *)
(* The module holds several specifications over one set of variables:      *)
(*   SpecFetch     one call of download_file_from_dropbox                  *)
(*   SpecMain      main(): the pipeline, with the two fetches in it        *)
(*   SpecRecon     copy_files_from_json_structure / download_missed_hashes *)
(*   SpecResolver  create_reverse_mapping on one encoded key               *)
(*   SpecAnn       check_shapes_in_images_project on a project tree        *)
(*   SpecDisk      check_disk_space on a source and a destination          *)
(*   SpecParts     get_tar_parts / combine_parts on a directory            *)
(* Each specification leaves the variables of the other parts unchanged.   *)
(***************************************************************************)
EXTENDS Integers, Sequences, FiniteSets, TLC

VARIABLES
    \* ---- download_file_from_dropbox (main.py 79-149)
    retry_attemp,      \* local retry_attemp (line 91)
    timeout,           \* local timeout (line 92)
    total_size,        \* local total_size (line 94), None until a response is accepted
    dest_file,         \* content of destination_path, a sequence of chunks
    fstate,            \* "idle" | "running" | "done" | "expired" | "fatal"
    remote_obj,        \* the remote object behind the shared link, a sequence of chunks
    n_attempts,        \* history: iterations of the while loop started
    n_transient,       \* history: RequestException handlers entered (line 128)
    n_other,           \* history: Exception handlers entered (line 141)
    n_chunks,          \* history: data chunks written (line 126)
    last_resp,         \* history: the last response [status, ctype, range], or NoResp
    \* ---- main (main.py 656-685)
    pc,                \* position of main()
    steps,             \* history: the pipeline steps executed so far, in order
    has_files_url,     \* project_info.backup_archive has a files URL
    has_ann_url,       \* project_info.backup_archive has an annotations URL
    project_type,      \* g.project_type
    download_mode,     \* g.download_mode
    archives,          \* the downloaded archives present on disk
    error,             \* the exception main() ends with, or NoError
    pool_dirs,         \* the dataset folders in g.temp_files_path: [name, ann]
    proj_dirs,         \* the dataset folders moved to g.proj_path: set of [name, ann]
    \* ---- copy_files_from_json_structure / download_missed_hashes (373-449)
    rpc,               \* position of the reconciler
    manifest,          \* json_data["datasets"]: sequence of [name, images]
    pool,              \* filenames in temp_files_path
    store,             \* hashes the remote content store holds
    dest,              \* files in the destination tree: set of <<dataset, name>>
    ds_idx,            \* index of the dataset being processed
    image_hashes,      \* local image_hashes (line 417)
    image_destination_pathes, \* local image_destination_pathes (line 418)
    errors,            \* local errors (line 419)
    calls,             \* history: calls of download_paths_by_hashes for this dataset
    first_call,        \* history: the batch of the first of these calls, or NoCall
    last_reply,        \* history: how the last batch call ended
    warned,            \* history: the "Skipping retries" warning was logged (line 428)
    honest,            \* history: every failed call so far named missing hashes only
    reported,          \* history: the hashes the "Hashes not found" answers named
    copies,            \* history: <<dataset, name, pool file>> copied from the pool
    \* ---- create_reverse_mapping on one key (339-352)
    key,               \* a logical key (hash)
    blob_name,         \* its LocalBlobName, or NoName before encoding
    index,             \* the reverse mapping built from {blob_name}, or NoIndex
    \* ---- check_shapes_in_images_project (561-602)
    apc,               \* position of check_shapes_in_images_project
    project_meta,      \* the object classes of the meta stored in the project
    keep_classes,      \* local keep_classes (line 569)
    remove_classes,    \* local remove_classes (line 570)
    meta,              \* local meta (line 581)
    ann_files,         \* the annotation file of each item, in the order of the walk
    ann_input,         \* history: the annotation files before the repair
    item_idx,          \* items the walk of line 582-584 has passed
    tier,              \* history: the tier that produced each item's annotation, or 0
    logged,            \* history: <<item, exception>> logged at line 594
    \* ---- check_disk_space (269-287)
    source,            \* the source path: [isdir, sizes]
    free_space,        \* shutil.disk_usage(dest_dir).free
    disk_result,       \* what check_disk_space returned, or NoResult
    \* ---- get_tar_parts / combine_parts (169-214)
    original,          \* history: the archive that was split, a sequence of bytes
    directory,         \* the files of the directory: name -> content
    listing,           \* the order in which os.listdir yields the names
    tar_parts,         \* what get_tar_parts returned
    ppc                \* position: "idle" | "list" | "combine" | "done"

fetchVars == <<retry_attemp, timeout, total_size, dest_file, fstate, remote_obj,
               n_attempts, n_transient, n_other, n_chunks, last_resp>>
mainVars == <<pc, steps, has_files_url, has_ann_url, project_type, download_mode,
              archives, error, pool_dirs, proj_dirs>>
reconVars == <<rpc, manifest, pool, store, dest, ds_idx, image_hashes,
               image_destination_pathes, errors, calls, first_call, last_reply, warned,
               honest, reported, copies>>
resolverVars == <<key, blob_name, index>>
annVars == <<apc, project_meta, keep_classes, remove_classes, meta, ann_files, ann_input,
             item_idx, tier, logged>>
diskVars == <<source, free_space, disk_result>>
partsVars == <<original, directory, listing, tar_parts, ppc>>
vars == <<fetchVars, mainVars, reconVars, resolverVars, annVars, diskVars, partsVars>>

(***************************************************************************)
(* Bounds of the model.                                                    *)
(***************************************************************************)
MaxAttempts == 11      \* loop iterations of one fetch that the model follows
MaxChunks == 3         \* data chunks one fetch may receive in the model
MaxRemoteLen == 2      \* chunks in the remote object
MaxImages == 6         \* images of the larger dataset of a manifest
MaxKeyLen == 4         \* characters of a logical key given to the resolver
MaxDatasets == 2       \* dataset folders in the files archive of a legacy project

(***************************************************************************)
(* Retrying Fetcher: download_file_from_dropbox.                           *)
(***************************************************************************)
None == -1
Range(s) == {s[i] : i \in DOMAIN s}
NoResp == [status |-> 0, ctype |-> "", range |-> None]

\* line 106-110
available_content_types == {"application/binary", "application/zip", "application/x-tar"}
\* The content types the remote end sends in the model: one that line 106-110 lists
\* (the three listed types are treated alike) and one that it does not list.
ContentTypes == {"application/zip", "text/html"}

\* What the remote end answers to "Range: bytes=<offset>-": 206 with the rest of the
\* object, 200 with the whole object (the range is ignored), or 416 when the offset is
\* not inside the object.
Statuses(offset) == IF offset < Len(remote_obj) THEN {206, 200} ELSE {416, 200}
ResponseBody(status, offset) ==
    IF status = 206 THEN SubSeq(remote_obj, offset + 1, Len(remote_obj))
    ELSE IF status = 200 THEN remote_obj
    ELSE << >>

\* line 111: the response is refused (RequestException raised, line 114)
ResponseRefused(status, ctype) ==
    status # 206 /\ ctype \notin available_content_types

\* a variant without the cap
MutNextTimeout(t) == t + 10

\* line 130-131
NextTimeout(t) == IF t < 90 THEN t + 10 ELSE t

\* line 128-140: except requests.exceptions.RequestException; r is retry_attemp on entry
TransientHandler(r) ==
    /\ retry_attemp' = r + 1
    /\ timeout' = NextTimeout(timeout)
    /\ fstate' = IF r + 1 = 9 THEN "expired" ELSE "running"
    /\ n_transient' = n_transient + 1
    /\ n_other' = n_other

\* line 141-145: except Exception; r is retry_attemp on entry
OtherHandler(r) ==
    /\ retry_attemp' = r + 1
    /\ timeout' = timeout
    /\ fstate' = IF r + 1 = 3 THEN "fatal" ELSE "running"
    /\ n_other' = n_other + 1
    /\ n_transient' = n_transient

CanAttempt == fstate = "running" /\ n_attempts < MaxAttempts

\* line 98-104, 128: open() succeeds and requests.get raises a RequestException
\* (connection error, timeout)
AttemptRequestFails ==
    /\ CanAttempt
    /\ n_attempts' = n_attempts + 1
    /\ TransientHandler(retry_attemp)
    /\ last_resp' = NoResp
    /\ UNCHANGED <<total_size, dest_file, remote_obj, n_chunks>>

\* line 98-104, 141: open() or requests.get raises an exception that is no
\* RequestException
AttemptUnexpectedError ==
    /\ CanAttempt
    /\ n_attempts' = n_attempts + 1
    /\ OtherHandler(retry_attemp)
    /\ last_resp' = NoResp
    /\ UNCHANGED <<total_size, dest_file, remote_obj, n_chunks>>

\* line 105-114, 128: a response arrives and is refused
AttemptRefused ==
    /\ CanAttempt
    /\ \E status \in Statuses(Len(dest_file)), ctype \in ContentTypes :
        /\ ResponseRefused(status, ctype)
        /\ last_resp' = [status |-> status, ctype |-> ctype, range |-> Len(dest_file)]
    /\ n_attempts' = n_attempts + 1
    /\ TransientHandler(retry_attemp)
    /\ UNCHANGED <<total_size, dest_file, remote_obj, n_chunks>>

\* line 115-127 and the handler or the else branch that ends the iteration: a response
\* is accepted, j chunks of its body are appended to the file, and the stream ends
\* with the body complete, with a RequestException or with another exception.
AttemptStream ==
    /\ CanAttempt
    /\ \E status \in Statuses(Len(dest_file)), ctype \in ContentTypes :
       LET offset == Len(dest_file)
           body == ResponseBody(status, offset)
       IN  /\ ~ResponseRefused(status, ctype)
           /\ last_resp' = [status |-> status, ctype |-> ctype, range |-> offset]
           /\ total_size' = IF total_size = None THEN Len(body) ELSE total_size
           /\ \E j \in 0..Len(body), end \in {"complete", "request_exception", "exception"} :
                LET r == IF j > 0 THEN 0 ELSE retry_attemp
                IN  /\ n_chunks + j <= MaxChunks
                    /\ end = "complete" => j = Len(body)
                    /\ dest_file' = dest_file \o SubSeq(body, 1, j)
                    /\ n_chunks' = n_chunks + j
                    /\ CASE end = "complete" ->
                              /\ retry_attemp' = r
                              /\ fstate' = "done"
                              /\ UNCHANGED <<timeout, n_transient, n_other>>
                         [] end = "request_exception" -> TransientHandler(r)
                         [] OTHER -> OtherHandler(r)
    /\ n_attempts' = n_attempts + 1
    /\ UNCHANGED remote_obj

FetchStep ==
    \/ AttemptRequestFails
    \/ AttemptUnexpectedError
    \/ AttemptRefused
    \/ AttemptStream

\* line 88-94: the state on entry of download_file_from_dropbox
FetchEntry ==
    /\ retry_attemp = 0
    /\ timeout = 10
    /\ total_size = None
    /\ dest_file = << >>
    /\ n_attempts = 0
    /\ n_transient = 0
    /\ n_other = 0
    /\ n_chunks = 0
    /\ last_resp = NoResp

RemoteObjects == {[i \in 1..n |-> i] : n \in 1..MaxRemoteLen}

(***************************************************************************)
(* Idle values of the parts a specification does not run.                  *)
(***************************************************************************)
NoName == << "?" >>
NoCall == [hashes |-> << >>, paths |-> << >>]
NoError == [kind |-> "none", link |-> FALSE, ds |-> ""]
NoIndex == << >>

FetchIdle ==
    /\ FetchEntry
    /\ fstate = "idle"
    /\ remote_obj = << 1 >>

MainIdle ==
    /\ pc = "idle"
    /\ steps = << >>
    /\ has_files_url = FALSE
    /\ has_ann_url = FALSE
    /\ project_type = "images"
    /\ download_mode = FALSE
    /\ archives = {}
    /\ error = NoError
    /\ pool_dirs = << >>
    /\ proj_dirs = {}

ReconIdle ==
    /\ rpc = "idle"
    /\ manifest = << >>
    /\ pool = {}
    /\ store = {}
    /\ dest = {}
    /\ ds_idx = 0
    /\ image_hashes = << >>
    /\ image_destination_pathes = << >>
    /\ errors = 0
    /\ calls = 0
    /\ first_call = NoCall
    /\ last_reply = "none"
    /\ warned = FALSE
    /\ honest = TRUE
    /\ reported = {}
    /\ copies = {}

ResolverIdle ==
    /\ key = << >>
    /\ blob_name = NoName
    /\ index = NoIndex

AnnIdle ==
    /\ apc = "idle"
    /\ project_meta = {}
    /\ keep_classes = {}
    /\ remove_classes = {}
    /\ meta = {}
    /\ ann_files = << >>
    /\ ann_input = << >>
    /\ item_idx = 0
    /\ tier = << >>
    /\ logged = {}

NoResult == << >>

DiskIdle ==
    /\ source = [isdir |-> FALSE, sizes |-> << 0 >>]
    /\ free_space = 0
    /\ disk_result = NoResult

PartsIdle ==
    /\ original = << >>
    /\ directory = << >>
    /\ listing = << >>
    /\ tar_parts = << >>
    /\ ppc = "idle"

(***************************************************************************)
(* SpecFetch: one call of download_file_from_dropbox.                      *)
(***************************************************************************)
InitFetch ==
    /\ FetchEntry
    /\ fstate = "running"
    /\ remote_obj \in RemoteObjects
    /\ MainIdle /\ ReconIdle /\ ResolverIdle /\ AnnIdle /\ DiskIdle /\ PartsIdle

NextFetch ==
    \/ AttemptRequestFails /\ UNCHANGED <<mainVars, reconVars, resolverVars, annVars, diskVars, partsVars>>
    \/ AttemptUnexpectedError /\ UNCHANGED <<mainVars, reconVars, resolverVars, annVars, diskVars, partsVars>>
    \/ AttemptRefused /\ UNCHANGED <<mainVars, reconVars, resolverVars, annVars, diskVars, partsVars>>
    \/ AttemptStream /\ UNCHANGED <<mainVars, reconVars, resolverVars, annVars, diskVars, partsVars>>

SpecFetch == InitFetch /\ [][NextFetch]_vars


(***************************************************************************)
(* Disk-Space Guard: check_disk_space.  A source is [isdir, sizes]: the    *)
(* sizes of the files under a directory, or the size of the one file.      *)
(***************************************************************************)
MaxBytes == 5          \* size of a file of a source
MaxFiles == 2          \* files under a source directory

RECURSIVE SumSizes(_)
SumSizes(sizes) == IF sizes = << >> THEN 0 ELSE Head(sizes) + SumSizes(Tail(sizes))

\* line 278-281
source_size(src) == IF src.isdir THEN SumSizes(src.sizes) ELSE src.sizes[1]

\* a variant that accepts a destination with exactly the required bytes free
Mut_check_disk_space(src, free) == free >= source_size(src)

\* line 269-287
check_disk_space(src, free) == free > source_size(src)

\* line 298, 624: the guard is called
CheckDiskSpace ==
    /\ disk_result = NoResult
    /\ disk_result' = << check_disk_space(source, free_space) >>
    /\ UNCHANGED <<source, free_space>>

Sources ==
    {[isdir |-> FALSE, sizes |-> << n >>] : n \in 0..MaxBytes}
    \cup {[isdir |-> TRUE, sizes |-> s] :
            s \in UNION {[1..k -> 0..MaxBytes] : k \in 0..MaxFiles}}

(***************************************************************************)
(* SpecDisk: one call of check_disk_space.                                 *)
(***************************************************************************)
InitDisk ==
    /\ source \in Sources
    /\ free_space \in 0..(MaxBytes * MaxFiles)
    /\ disk_result = NoResult
    /\ FetchIdle /\ MainIdle /\ ReconIdle /\ ResolverIdle /\ AnnIdle /\ PartsIdle

NextDisk ==
    \/ CheckDiskSpace /\ UNCHANGED <<fetchVars, mainVars, reconVars, resolverVars, annVars, partsVars>>

SpecDisk == InitDisk /\ [][NextDisk]_vars


(***************************************************************************)
(* Pipeline Orchestrator: main() and the steps it calls.                   *)
(***************************************************************************)
FilesArchive == "files.tar"            \* g.archive_files_path (globals.py 27)
AnnArchive == "annotations.tar"        \* g.archive_ann_path (globals.py 28)
ProjectTypes == {"images", "videos"}   \* an image kind and a non-image kind

Raised(kind, link) == [kind |-> kind, link |-> link, ds |-> ""]

\* line 675-677: the message of the exception names the dataset
RaisedNaming(kind, ds) == [kind |-> kind, link |-> FALSE, ds |-> ds]

\* line 46-56: raise_exception_with_troubleshooting_link replaces the message of the
\* exception by the troubleshooting guidance and raises it
RaiseWithTroubleshootingLink(kind) ==
    /\ pc' = "raised"
    /\ error' = Raised(kind, TRUE)

\* an exception that leaves main() as it was raised
RaisePlain(kind) ==
    /\ pc' = "raised"
    /\ error' = Raised(kind, FALSE)

\* line 79-94: download_file_from_dropbox is entered for the step p
BeginFetch(p) ==
    /\ pc' = p
    /\ steps' = Append(steps, p)
    /\ retry_attemp' = 0
    /\ timeout' = 10
    /\ total_size' = None
    /\ dest_file' = << >>
    /\ fstate' = "running"
    /\ n_attempts' = 0
    /\ n_transient' = 0
    /\ n_other' = 0
    /\ n_chunks' = 0
    /\ last_resp' = NoResp
    /\ UNCHANGED remote_obj

\* download_file_from_dropbox has returned: its locals are gone
EndFetch ==
    /\ retry_attemp' = 0
    /\ timeout' = 10
    /\ total_size' = None
    /\ dest_file' = << >>
    /\ fstate' = "idle"
    /\ n_attempts' = 0
    /\ n_transient' = 0
    /\ n_other' = 0
    /\ n_chunks' = 0
    /\ last_resp' = NoResp
    /\ UNCHANGED remote_obj

\* line 662, 159-166: main calls download_backup
DownloadBackup ==
    /\ pc = "start"
    /\ IF has_files_url THEN BeginFetch("fetch_files")
       ELSE IF has_ann_url THEN BeginFetch("fetch_ann")
       ELSE /\ pc' = "unzip_files"
            /\ UNCHANGED <<steps, fetchVars>>
    /\ UNCHANGED <<has_files_url, has_ann_url, project_type, download_mode, pool_dirs,
                   proj_dirs, archives, error>>

\* line 163, 166: one iteration of the retry loop of the running fetch
FetchAttempt ==
    /\ pc \in {"fetch_files", "fetch_ann"}
    /\ FetchStep
    /\ UNCHANGED mainVars

\* line 163-166: the files archive is downloaded; the annotations archive is next
FetchFilesDone ==
    /\ pc = "fetch_files"
    /\ fstate = "done"
    /\ archives' = archives \cup {FilesArchive}
    /\ IF has_ann_url THEN BeginFetch("fetch_ann")
       ELSE /\ pc' = "unzip_files"
            /\ steps' = steps
            /\ EndFetch
    /\ UNCHANGED <<has_files_url, has_ann_url, project_type, download_mode, error,
                   pool_dirs, proj_dirs>>

\* line 166, 665: the annotations archive is downloaded; download_backup returns
FetchAnnDone ==
    /\ pc = "fetch_ann"
    /\ fstate = "done"
    /\ archives' = archives \cup {AnnArchive}
    /\ pc' = "unzip_files"
    /\ EndFetch
    /\ UNCHANGED <<steps, has_files_url, has_ann_url, project_type, download_mode, error,
                   pool_dirs, proj_dirs>>

\* the InactivityError is swallowed and the run goes on
MutOnInactivityError ==
    /\ pc' = "unzip_files"
    /\ error' = NoError

\* line 663-664: except InactivityError: return
OnInactivityError ==
    /\ pc' = "returned"
    /\ error' = NoError

\* line 133, 63-76, 661-664: the fetch raised InactivityError
FetchExpired ==
    /\ pc \in {"fetch_files", "fetch_ann"}
    /\ fstate = "expired"
    /\ OnInactivityError
    /\ UNCHANGED <<steps, has_files_url, has_ann_url, project_type, download_mode, pool_dirs,
                   proj_dirs, archives, fetchVars>>

\* line 144, 46-56: the fetch raised the error with the troubleshooting message; main
\* does not catch it
FetchFatal ==
    /\ pc \in {"fetch_files", "fetch_ann"}
    /\ fstate = "fatal"
    /\ RaiseWithTroubleshootingLink("Exception")
    /\ UNCHANGED <<steps, has_files_url, has_ann_url, project_type, download_mode, pool_dirs,
                   proj_dirs, archives, fetchVars>>

\* The archives and trees of the model have the size 1, and the destination
\* has as many free bytes or one more (line 278-285)
SourceOfSizeOne == [isdir |-> FALSE, sizes |-> << 1 >>]
FreeSpaces == {1, 2}

\* the event the guard leaves in the history: line 298, 624
GuardEvent(free) == IF check_disk_space(SourceOfSizeOne, free) THEN "disk_ok" ELSE "disk_short"

\* what the files archive may hold for a branch that looks at the dataset folders
\* (line 672-680): no folder, or up to MaxDatasets folders, whose "ann" directory is
\* missing, empty or holds files
AnnDirs == {"missing", "empty", "files"}
DsName(i) == "ds" \o ToString(i)
PoolLayouts ==
    UNION {{[i \in 1..n |-> [name |-> DsName(i), ann |-> a[i]]] : a \in [1..n -> AnnDirs]}
           : n \in 0..MaxDatasets}

\* a variant that extracts before it asks the guard
MutUnzipEvents(p, guard, outcome) ==
    IF guard = "disk_short" THEN << p, "extract", guard >>
    ELSE << p, "extract", guard, "remove_archive" >>

\* line 298-321: what unzip_archive does, in order, as the step p
UnzipEvents(p, guard, outcome) ==
    IF guard = "disk_short" THEN << p, guard >>                           \* line 298-299
    ELSE CASE outcome = "unsupported" -> << p, guard >>                   \* line 302, 231
           [] outcome = "decode_error" -> << p, guard, "extract" >>       \* line 308-314
           [] outcome \in {"ok", "remove_error", "listing_error"} ->      \* line 315-317
                << p, guard, "extract", "remove_archive" >>
           [] outcome = "combine_error" ->                                \* line 319
                << p, guard, "extract", "remove_archive", "combine_parts" >>
           [] outcome = "parts_error" ->                                  \* line 320
                << p, guard, "extract", "remove_archive", "combine_parts",
                   "extract_combined" >>
           [] OTHER ->                                                    \* line 321
                << p, guard, "extract", "remove_archive", "combine_parts",
                   "extract_combined", "remove_combined" >>

\* line 246-248, 262-264: the members are extracted one by one, so an extraction that
\* raises leaves the folders of the members before the failing one: none, or some
ExtractedBeforeFailure(next) ==
    IF next \in {"legacy_check", "move_files"}
    THEN PoolLayouts
    ELSE {pool_dirs}

\* the outcomes of unzip_archive once the guard has passed: the format is not supported
\* (302), the extraction raises (308-314), os.remove(archive_path) raises (315),
\* os.listdir raises in get_tar_parts (316, 190), combine_parts raises (319, 204-209),
\* the extraction of the combined archive raises (320), os.remove(full_archive) raises
\* (321), or the function returns without parts ("ok") or with parts ("ok_parts")
UnzipOutcomes ==
    {"unsupported", "decode_error", "remove_error", "listing_error", "combine_error",
     "parts_error", "remove_combined_error", "ok", "ok_parts"}

\* a variant that removes the archive after a failed extraction too
MutRemovesArchive(guard, outcome) ==
    guard = "disk_ok" /\ outcome # "unsupported"

\* line 315: os.remove(archive_path) is reached
RemovesArchive(guard, outcome) ==
    guard = "disk_ok" /\ outcome \in {"ok", "ok_parts", "listing_error", "combine_error",
                                     "parts_error", "remove_combined_error"}

\* line 290-321: unzip_archive(archive, ...) as the step p, followed by the step next
UnzipArchive(p, archive, next) ==
    /\ pc = p
    /\ IF archive \notin archives
       THEN \* line 281: os.path.getsize of a file that does not exist
            /\ RaisePlain("FileNotFoundError")
            /\ steps' = Append(steps, p)
            /\ UNCHANGED <<archives, pool_dirs>>
       ELSE \E free \in FreeSpaces :
            \E outcome \in UnzipOutcomes :
              LET guard == GuardEvent(free) IN
              \* line 190: the directory of the pool does not exist when the archive
              \* had no member; the project directory always exists (globals.py 22)
              /\ outcome = "listing_error" => guard = "disk_ok" /\ p = "unzip_files"
              /\ steps' = steps \o UnzipEvents(p, guard, outcome)
              /\ archives' = IF RemovesArchive(guard, outcome)    \* line 315
                             THEN archives \ {archive}
                             ELSE archives
              /\ IF guard = "disk_short"                  \* line 298-299
                 THEN /\ RaiseWithTroubleshootingLink("NotEnoughDiskSpaceError")
                      /\ UNCHANGED pool_dirs
                 ELSE
                 CASE outcome = "unsupported" ->          \* line 302, 231
                        /\ RaisePlain("ValueError")
                        /\ UNCHANGED pool_dirs
                   [] outcome = "decode_error" ->         \* line 308-314
                        /\ RaiseWithTroubleshootingLink("Exception")
                        /\ pool_dirs' \in ExtractedBeforeFailure(next)
                   [] outcome = "remove_error" ->         \* line 315: the archive stays
                        /\ RaisePlain("OSError")
                        /\ pool_dirs' \in ExtractedBeforeFailure(next)
                   [] outcome = "listing_error" ->        \* line 316, 190
                        /\ RaisePlain("FileNotFoundError")
                        /\ pool_dirs' = << >>
                   [] outcome \in {"combine_error", "remove_combined_error"} ->
                        /\ RaisePlain("OSError")          \* line 319, 204-209; line 321
                        /\ pool_dirs' \in ExtractedBeforeFailure(next)
                   [] outcome = "parts_error" ->          \* line 320
                        /\ RaisePlain("Exception")
                        /\ pool_dirs' \in ExtractedBeforeFailure(next)
                   [] OTHER ->                            \* line 315-321
                        /\ pc' = next
                        /\ error' = error
                        /\ IF next \in {"legacy_check", "move_files"}
                           THEN pool_dirs' \in PoolLayouts
                           ELSE pool_dirs' = pool_dirs
    /\ UNCHANGED <<has_files_url, has_ann_url, project_type, download_mode, proj_dirs,
                   fetchVars>>

\* line 666-680: the branch main takes after the files archive is extracted
AfterUnzipFiles ==
    IF project_type = "images"
    THEN IF AnnArchive \in archives THEN "unzip_ann" ELSE "legacy_check"
    ELSE "move_files"

\* line 665
UnzipFiles == UnzipArchive("unzip_files", FilesArchive, AfterUnzipFiles)

\* line 668
UnzipAnn == UnzipArchive("unzip_ann", AnnArchive, "prepare_image_files")

\* line 682
OutputStep == IF download_mode THEN "packaging" ELSE "import"

\* line 669, 605-614
PrepareImageFiles ==
    /\ pc = "prepare_image_files"
    /\ steps' = Append(steps, "prepare_image_files")
    /\ \/ /\ pc' = OutputStep
          /\ error' = error
       \/ RaisePlain("Exception")
    /\ UNCHANGED <<has_files_url, has_ann_url, project_type, download_mode, pool_dirs,
                   proj_dirs, archives, fetchVars>>

\* a variant that takes a missing "ann" directory for one that holds files
Mut_dir_empty(d) == d.ann = "empty"

\* line 674: dir_empty(os.path.join(g.temp_files_path, ds_dir, "ann"))
dir_empty(d) == d.ann # "files"

\* line 673-674: the first dataset folder of the walk whose "ann" directory is empty,
\* or 0
FirstEmpty(dirs) ==
    IF \E i \in DOMAIN dirs : dir_empty(dirs[i])
    THEN CHOOSE i \in DOMAIN dirs : dir_empty(dirs[i]) /\ \A j \in 1..(i - 1) : ~dir_empty(dirs[j])
    ELSE 0

\* line 671-677
LegacyCheck ==
    /\ pc = "legacy_check"
    /\ steps' = Append(steps, "legacy_check")
    /\ IF FirstEmpty(pool_dirs) # 0
       THEN /\ pc' = "raised"                                         \* line 675
            /\ error' = RaisedNaming("FileNotFoundError", pool_dirs[FirstEmpty(pool_dirs)].name)
       ELSE /\ pc' = "move_files"
            /\ error' = error
    /\ UNCHANGED <<has_files_url, has_ann_url, project_type, download_mode, pool_dirs,
                   proj_dirs, archives, fetchVars>>

\* line 678, 680, 452-468
MoveFilesToProjectDir ==
    /\ pc = "move_files"
    /\ steps' = Append(steps, "move_files")
    /\ \/ /\ pc' = OutputStep
          /\ error' = error
          /\ proj_dirs' = proj_dirs \cup Range(pool_dirs)
          /\ pool_dirs' = << >>                                       \* line 468
       \/ \E k \in 1..(Len(pool_dirs) + 1) :   \* line 460-468: the k-th shutil.move
            /\ RaisePlain("Exception")         \* raises, or shutil.rmtree after the last
            /\ proj_dirs' = proj_dirs \cup Range(SubSeq(pool_dirs, 1, k - 1))
            /\ pool_dirs' = SubSeq(pool_dirs, k, Len(pool_dirs))
    /\ UNCHANGED <<has_files_url, has_ann_url, project_type, download_mode,
                   archives, fetchVars>>

\* line 497, 628: shutil.rmtree(g.proj_path); the downloaded archives are files of this
\* directory (globals.py 27-28); the pool, a directory of it too, is empty by then
RemoveProjectDir ==
    /\ proj_dirs' = {}
    /\ archives' = {}

\* line 683, 617-653
PrepareDownloadableArchive ==
    /\ pc = "packaging"
    /\ \E free \in FreeSpaces :
       LET guard == GuardEvent(free) IN
       IF guard = "disk_short"                                        \* line 624-625
       THEN /\ RaiseWithTroubleshootingLink("NotEnoughDiskSpaceError")
            /\ steps' = steps \o << "packaging", guard >>
            /\ UNCHANGED <<proj_dirs, archives>>
       ELSE \/ /\ RaisePlain("Exception")                            \* line 627 raises
               /\ steps' = steps \o << "packaging", guard, "archive" >>
               /\ UNCHANGED <<proj_dirs, archives>>
            \/ /\ RaisePlain("Exception")                            \* line 646-653 raises
               /\ steps' = steps \o << "packaging", guard, "archive", "upload_archive" >>
               /\ RemoveProjectDir
            \/ /\ pc' = "done"
               /\ error' = error
               /\ steps' = steps \o << "packaging", guard, "archive", "upload_archive" >>
               /\ RemoveProjectDir
    /\ UNCHANGED <<has_files_url, has_ann_url, project_type, download_mode, pool_dirs,
                   fetchVars>>

\* a variant that repairs no project
MutImportSteps(type) == << "upload" >>

\* line 494-496: what import_project_by_type runs for a project type
ImportSteps(type) ==
    IF type = "images" THEN << "check_shapes", "upload" >> ELSE << "upload" >>

\* line 685, 483-498
ImportProjectByType ==
    /\ pc = "import"
    /\ \/ \E n \in 1..Len(ImportSteps(project_type)) :   \* the n-th of them raises
            /\ RaisePlain("Exception")
            /\ steps' = steps \o SubSeq(ImportSteps(project_type), 1, n)
            /\ UNCHANGED <<proj_dirs, archives>>
       \/ /\ pc' = "done"
          /\ error' = error
          /\ steps' = steps \o ImportSteps(project_type)
          /\ RemoveProjectDir                                         \* line 497
    /\ UNCHANGED <<has_files_url, has_ann_url, project_type, download_mode, pool_dirs,
                   fetchVars>>

(***************************************************************************)
(* SpecMain: one run of main().                                            *)
(***************************************************************************)
InitMain ==
    /\ pc = "start"
    /\ steps = << >>
    /\ has_files_url \in BOOLEAN
    /\ has_ann_url \in BOOLEAN
    /\ project_type \in ProjectTypes
    /\ download_mode \in BOOLEAN
    /\ archives = {}
    /\ error = NoError
    /\ pool_dirs = << >>
    /\ proj_dirs = {}
    /\ FetchEntry
    /\ fstate = "idle"
    /\ remote_obj = [i \in 1..MaxRemoteLen |-> i]
    /\ ReconIdle /\ ResolverIdle /\ AnnIdle /\ DiskIdle /\ PartsIdle

NextMain ==
    \/ DownloadBackup /\ UNCHANGED <<reconVars, resolverVars, annVars, diskVars, partsVars>>
    \/ FetchAttempt /\ UNCHANGED <<reconVars, resolverVars, annVars, diskVars, partsVars>>
    \/ FetchFilesDone /\ UNCHANGED <<reconVars, resolverVars, annVars, diskVars, partsVars>>
    \/ FetchAnnDone /\ UNCHANGED <<reconVars, resolverVars, annVars, diskVars, partsVars>>
    \/ FetchExpired /\ UNCHANGED <<reconVars, resolverVars, annVars, diskVars, partsVars>>
    \/ FetchFatal /\ UNCHANGED <<reconVars, resolverVars, annVars, diskVars, partsVars>>
    \/ UnzipFiles /\ UNCHANGED <<reconVars, resolverVars, annVars, diskVars, partsVars>>
    \/ UnzipAnn /\ UNCHANGED <<reconVars, resolverVars, annVars, diskVars, partsVars>>
    \/ PrepareImageFiles /\ UNCHANGED <<reconVars, resolverVars, annVars, diskVars, partsVars>>
    \/ LegacyCheck /\ UNCHANGED <<reconVars, resolverVars, annVars, diskVars, partsVars>>
    \/ MoveFilesToProjectDir /\ UNCHANGED <<reconVars, resolverVars, annVars, diskVars, partsVars>>
    \/ PrepareDownloadableArchive /\ UNCHANGED <<reconVars, resolverVars, annVars, diskVars, partsVars>>
    \/ ImportProjectByType /\ UNCHANGED <<reconVars, resolverVars, annVars, diskVars, partsVars>>

SpecMain == InitMain /\ [][NextMain]_vars


(***************************************************************************)
(* Filename Resolver.  A name is a sequence of characters.                 *)
(***************************************************************************)

\* str.rfind, counted from 1; 0 when c does not occur
RFind(s, c) == IF c \in Range(s) THEN CHOOSE i \in DOMAIN s :
                                          s[i] = c /\ \A j \in DOMAIN s : s[j] = c => j <= i
               ELSE 0

\* str.replace(a, b) for single characters
Replace(s, a, b) == [i \in DOMAIN s |-> IF s[i] = a THEN b ELSE s[i]]

\* os.path.splitext (line 349): the extension starts at the last dot, if that dot comes
\* after the last separator and after a character of the last component that is no dot
splitext(p) ==
    LET sepIndex == RFind(p, "/")
        dotIndex == RFind(p, ".")
    IN  IF /\ dotIndex > sepIndex
           /\ \E i \in (sepIndex + 1)..(dotIndex - 1) : p[i] # "."
        THEN << SubSeq(p, 1, dotIndex - 1), SubSeq(p, dotIndex, Len(p)) >>
        ELSE << p, << >> >>

\* str.replace("-", "/", 1): only the first dash is replaced
ReplaceFirst(s, a, b) ==
    [i \in DOMAIN s |-> IF s[i] = a /\ (\A j \in 1..(i - 1) : s[j] # a) THEN b ELSE s[i]]

MutOriginalName(filename) ==
    LET sp == splitext(filename)
    IN  ReplaceFirst(sp[1], "-", "/") \o sp[2]

\* line 349-350: the logical key a filename of the pool stands for
OriginalName(filename) ==
    LET sp == splitext(filename)
    IN  Replace(sp[1], "-", "/") \o sp[2]

\* line 339-352.  No two filenames of one directory decode to the same key: a filename
\* holds no separator, and the decoding changes nothing else.
create_reverse_mapping(filenames) ==
    [k \in {OriginalName(f) : f \in filenames} |->
        CHOOSE f \in filenames : OriginalName(f) = k]

\* the hash is looked up among the filenames themselves
Mut_make_real_source_path(hash_value, reverse_mapping) ==
    IF hash_value \in Range(reverse_mapping) THEN hash_value ELSE NoName

\* line 355-370, without the directory part; NoName stands for None
make_real_source_path(hash_value, reverse_mapping) ==
    IF hash_value \in DOMAIN reverse_mapping THEN reverse_mapping[hash_value] ELSE NoName

\* LocalBlobName of the data model: each path separator of the key replaced by a dash,
\* the extension kept.  The code that names the blobs is not part of the repository.
Encode(k) ==
    LET sp == splitext(k)
    IN  Replace(sp[1], "/", "-") \o sp[2]

(***************************************************************************)
(* Content Reconciler.                                                     *)
(***************************************************************************)
Image(h, n) == [hash |-> h, name |-> n]
Dataset(n, imgs) == [name |-> n, images |-> imgs]

Png == << ".", "p", "n", "g" >>
HashADashB == << "a", "-", "b" >> \o Png       \* "a-b.png"
HashCDashD == << "c", "-", "d" >> \o Png       \* "c-d.png"
HashASlashB == << "a", "/", "b" >> \o Png      \* "a/b.png"
HashCSlashD == << "c", "/", "d" >> \o Png      \* "c/d.png"
\* further keys: "x/y", "xx/y", ...
HashX(i) == [j \in 1..i |-> "x"] \o << "/", "y" >>
ImageName(i) == "img" \o ToString(i) \o ".png"

\* the images of the larger dataset: a/b.png, c/d.png, x/y, xx/y, ...
CatalogImage(i) ==
    Image(IF i = 1 THEN HashASlashB ELSE IF i = 2 THEN HashCSlashD ELSE HashX(i - 2),
          ImageName(i))

\* the dataset of the end-to-end scenario, with the keys written with dashes
DashScenario == << Image(HashADashB, "img1.png"), Image(HashCDashD, "img2.png") >>

\* a name with a dash after its last dot: the dash is part of the extension, so the
\* file a.b-c stands for the key "a.b-c" (line 349-350)
HashADotBDashC == << "a", ".", "b", "-", "c" >>
DashInExtension == << Image(HashADotBDashC, "img1.png"), Image(HashCSlashD, "img2.png") >>

\* json_data of line 385: a dataset "ds0" with one image, and "ds1" with the scenario,
\* with a hash that holds a dash in its extension, or with the first n images of the catalog
Manifests ==
    { << Dataset("ds0", << Image(HashASlashB, "img1.png") >>), Dataset("ds1", imgs) >> :
        imgs \in {DashScenario, DashInExtension} \cup {[i \in 1..n |-> CatalogImage(i)] : n \in 0..MaxImages} }

\* the filenames temp_files_path may hold
PoolFiles == {HashADashB, HashCDashD, HashADotBDashC}

ManifestHashes(m) == UNION {{im.hash : im \in Range(ds.images)} : ds \in Range(m)}

\* line 444-449: the entries of list l at the positions where image_hashes holds a
\* hash of R are dropped
\* a variant that removes only the first of the entries the answer names
MutNarrowedFirst(l, R) ==
    LET hit == {i \in DOMAIN image_hashes : image_hashes[i] \in R}
        keep == {i \in DOMAIN image_hashes : \E j \in hit : j < i} \cup
                (DOMAIN image_hashes \ hit)
        pos(k) == CHOOSE i \in keep : Cardinality({j \in keep : j < i}) = k - 1
    IN  [k \in 1..Cardinality(keep) |-> l[pos(k)]]

MutNarrowed(l, R) ==
    LET keep == {i \in DOMAIN image_hashes : image_hashes[i] \notin R /\ i # 1}
        pos(k) == CHOOSE i \in keep : Cardinality({j \in keep : j < i}) = k - 1
    IN  [k \in 1..Cardinality(keep) |-> l[pos(k)]]

Narrowed(l, R) ==
    LET keep == {i \in DOMAIN image_hashes : image_hashes[i] \notin R}
        pos(k) == CHOOSE i \in keep : Cardinality({j \in keep : j < i}) = k - 1
    IN  [k \in 1..Cardinality(keep) |-> l[pos(k)]]

MutRetriesExhausted == errors > 5

\* line 427
RetriesExhausted == errors > 4

reconHistory == <<first_call, last_reply, warned, honest, reported>>

\* line 610-612: prepare_image_files loads the manifest and builds the index
PrepareIndex ==
    /\ rpc = "start"
    /\ index' = create_reverse_mapping(pool)
    /\ ds_idx' = 1
    /\ rpc' = IF Len(manifest) = 0 THEN "finish" ELSE "copy"
    /\ UNCHANGED <<manifest, pool, store, dest, image_hashes, image_destination_pathes,
                   errors, calls, reconHistory, copies>>

\* line 387-405, 417-425: the images of one dataset are copied from the pool or
\* collected in missed_hashes; download_missed_hashes is entered if any is missed
CopyDataset ==
    /\ rpc = "copy"
    /\ LET ds == manifest[ds_idx]
           imgs == ds.images
           found == {i \in DOMAIN imgs : make_real_source_path(imgs[i].hash, index) # NoName}
           missed_hashes == SelectSeq(imgs,
                               LAMBDA im : make_real_source_path(im.hash, index) = NoName)
       IN  /\ dest' = dest \cup {<< ds.name, imgs[i].name >> : i \in found}
           /\ copies' = copies \cup
                  {<< ds.name, imgs[i].name, make_real_source_path(imgs[i].hash, index) >> :
                      i \in found}
           /\ image_hashes' = [i \in DOMAIN missed_hashes |-> missed_hashes[i].hash]
           /\ image_destination_pathes' =
                  [i \in DOMAIN missed_hashes |-> << ds.name, missed_hashes[i].name >>]
           /\ rpc' = IF Len(missed_hashes) # 0 THEN "call" ELSE "ds_done"
    /\ errors' = 0
    /\ calls' = 0
    /\ first_call' = NoCall
    /\ last_reply' = "none"
    /\ warned' = FALSE
    /\ honest' = TRUE
    /\ reported' = {}
    /\ UNCHANGED <<manifest, pool, store, ds_idx, index>>

Batch == [hashes |-> image_hashes, paths |-> image_destination_pathes]

\* line 431: image_hashes and image_destination_pathes are sent
SendBatch ==
    /\ calls' = calls + 1
    /\ first_call' = IF calls = 0 THEN Batch ELSE first_call

\* line 427-429: the retries are used up
GiveUp ==
    /\ rpc = "call"
    /\ RetriesExhausted
    /\ warned' = TRUE
    /\ rpc' = "ds_done"
    /\ UNCHANGED <<manifest, pool, store, dest, ds_idx, image_hashes,
                   image_destination_pathes, errors, calls, first_call, last_reply, honest,
                   reported, copies, index>>

\* line 431-432: the store holds every hash of the batch and writes each to its path
CallSucceeds ==
    /\ rpc = "call"
    /\ ~RetriesExhausted
    /\ Range(image_hashes) \subseteq store
    /\ SendBatch
    /\ dest' = dest \cup Range(image_destination_pathes)
    /\ last_reply' = "ok"
    /\ rpc' = "ds_done"
    /\ UNCHANGED <<manifest, pool, store, ds_idx, image_hashes, image_destination_pathes,
                   errors, warned, honest, reported, copies, index>>

\* line 433-449: HTTPError "Hashes not found" naming the hashes R, which the store
\* does not hold; nothing is written
CallHashesNotFound ==
    /\ rpc = "call"
    /\ ~RetriesExhausted
    /\ \E R \in SUBSET (Range(image_hashes) \ store) :
        /\ Range(image_hashes) \ store # {}
        /\ image_hashes' = Narrowed(image_hashes, R)
        /\ image_destination_pathes' = Narrowed(image_destination_pathes, R)
        /\ honest' = (honest /\ R # {})
        /\ reported' = reported \cup R
    /\ SendBatch
    /\ errors' = errors + 1
    /\ last_reply' = "hashes_not_found"
    /\ UNCHANGED <<rpc, manifest, pool, store, dest, ds_idx, warned, copies, index>>

\* line 433-437: HTTPError whose JSON body carries another message; line 437 is false
\* and the loop goes on
CallHTTPError ==
    /\ rpc = "call"
    /\ ~RetriesExhausted
    /\ SendBatch
    /\ errors' = errors + 1
    /\ last_reply' = "http_error"
    /\ honest' = FALSE
    /\ reported' = reported
    /\ UNCHANGED <<rpc, manifest, pool, store, dest, ds_idx, image_hashes,
                   image_destination_pathes, warned, copies, index>>

\* line 431, 434-435: an exception that is no HTTPError (a connection error) leaves
\* the function at once; an HTTPError whose body cannot be decoded is counted on line
\* 434 before json.loads raises on line 435
CallRaises ==
    /\ rpc = "call"
    /\ ~RetriesExhausted
    /\ SendBatch
    /\ \E counted \in BOOLEAN : errors' = IF counted THEN errors + 1 ELSE errors
    /\ last_reply' = "exception"
    /\ honest' = FALSE
    /\ reported' = reported
    /\ rpc' = "raised"
    /\ UNCHANGED <<manifest, pool, store, dest, ds_idx, image_hashes,
                   image_destination_pathes, warned, copies, index>>

\* line 387: the loop over the datasets goes on, or ends
NextDataset ==
    /\ rpc = "ds_done"
    /\ IF ds_idx < Len(manifest)
       THEN /\ ds_idx' = ds_idx + 1
            /\ rpc' = "copy"
       ELSE /\ ds_idx' = ds_idx
            /\ rpc' = "finish"
    /\ UNCHANGED <<manifest, pool, store, dest, image_hashes, image_destination_pathes,
                   errors, calls, reconHistory, copies, index>>

\* line 614, 471-480: del_files removes the pool and the manifest file
DelFiles ==
    /\ rpc = "finish"
    /\ pool' = {}
    /\ rpc' = "returned"
    /\ UNCHANGED <<manifest, store, dest, ds_idx, image_hashes, image_destination_pathes,
                   errors, calls, reconHistory, copies, index>>

(***************************************************************************)
(* SpecRecon: prepare_image_files on a manifest, a pool and a remote store.*)
(***************************************************************************)
InitRecon ==
    /\ rpc = "start"
    /\ manifest \in Manifests
    /\ pool \in SUBSET PoolFiles
    /\ store \in SUBSET ManifestHashes(manifest)
    /\ dest = {}
    /\ ds_idx = 0
    /\ image_hashes = << >>
    /\ image_destination_pathes = << >>
    /\ errors = 0
    /\ calls = 0
    /\ first_call = NoCall
    /\ last_reply = "none"
    /\ warned = FALSE
    /\ honest = TRUE
    /\ reported = {}
    /\ copies = {}
    /\ key = << >>
    /\ blob_name = NoName
    /\ index = NoIndex
    /\ FetchIdle /\ MainIdle /\ AnnIdle /\ DiskIdle /\ PartsIdle

NextRecon ==
    \/ PrepareIndex /\ UNCHANGED <<fetchVars, mainVars, key, blob_name, annVars, diskVars, partsVars>>
    \/ CopyDataset /\ UNCHANGED <<fetchVars, mainVars, key, blob_name, annVars, diskVars, partsVars>>
    \/ GiveUp /\ UNCHANGED <<fetchVars, mainVars, key, blob_name, annVars, diskVars, partsVars>>
    \/ CallSucceeds /\ UNCHANGED <<fetchVars, mainVars, key, blob_name, annVars, diskVars, partsVars>>
    \/ CallHashesNotFound /\ UNCHANGED <<fetchVars, mainVars, key, blob_name, annVars, diskVars, partsVars>>
    \/ CallHTTPError /\ UNCHANGED <<fetchVars, mainVars, key, blob_name, annVars, diskVars, partsVars>>
    \/ CallRaises /\ UNCHANGED <<fetchVars, mainVars, key, blob_name, annVars, diskVars, partsVars>>
    \/ NextDataset /\ UNCHANGED <<fetchVars, mainVars, key, blob_name, annVars, diskVars, partsVars>>
    \/ DelFiles /\ UNCHANGED <<fetchVars, mainVars, key, blob_name, annVars, diskVars, partsVars>>

SpecRecon == InitRecon /\ [][NextRecon]_vars

(***************************************************************************)
(* SpecResolver: a logical key is encoded as a blob name, and the index is *)
(* built from the directory that holds the blob.                           *)
(***************************************************************************)
KeyChars == {"a", "/", "-", "."}
Keys == UNION {[1..n -> KeyChars] : n \in 1..MaxKeyLen}

\* the blob of the key is stored under its LocalBlobName
EncodeKey ==
    /\ blob_name = NoName
    /\ blob_name' = Encode(key)
    /\ UNCHANGED <<key, index>>

\* line 611-612: the index is built from the filenames of the directory
BuildIndex ==
    /\ blob_name # NoName
    /\ index = NoIndex
    /\ index' = create_reverse_mapping({blob_name})
    /\ UNCHANGED <<key, blob_name>>

InitResolver ==
    /\ key \in Keys
    /\ blob_name = NoName
    /\ index = NoIndex
    /\ FetchIdle /\ MainIdle /\ ReconIdle /\ AnnIdle /\ DiskIdle /\ PartsIdle

NextResolver ==
    \/ EncodeKey /\ UNCHANGED <<fetchVars, mainVars, reconVars, annVars, diskVars, partsVars>>
    \/ BuildIndex /\ UNCHANGED <<fetchVars, mainVars, reconVars, annVars, diskVars, partsVars>>

SpecResolver == InitResolver /\ [][NextResolver]_vars


(***************************************************************************)
(* Annotation Repair: check_shapes_in_images_project and what it calls.    *)
(* An annotation file is [json, size, objects, tags]: json says whether    *)
(* the file parses as JSON, size is the "size" entry or None, an object is *)
(* [classTitle, ok] and a tag is [name, ok], where ok says whether the     *)
(* entry deserialises.                                                     *)
(***************************************************************************)
MaxItems == 2          \* items of the first dataset of the project tree

AnnSize == << 2, 3 >>  \* the size the annotation files of the model record
ImgSize == << 4, 5 >>  \* the size read from the image files of the model
NoSize == << >>        \* ann_json.get("size") is None

Cuboid == "cuboid"     \* sly.Cuboid (line 572)
Car == [name |-> "car", geometry |-> "rectangle"]
Box == [name |-> "box", geometry |-> Cuboid]
Road == [name |-> "road", geometry |-> "polygon"]
\* The metas of the model: with and without a Cuboid class
Metas == {{Car, Road, Box}, {Car, Road}, {Car, Box}}

Obj(c, ok) == [classTitle |-> c, ok |-> ok]
Tag(n, ok) == [name |-> n, ok |-> ok]
AnnFile(size, objects, tags) ==
    [json |-> TRUE, size |-> size, objects |-> objects, tags |-> tags]
NotJson == [json |-> FALSE, size |-> NoSize, objects |-> << >>, tags |-> << >>]

\* The annotation files of the model: a valid one, a valid one with a Cuboid label, one
\* with a bad object, one with a bad tag, one that is not JSON, and one without "size"
AnnFiles ==
    { AnnFile(AnnSize, << Obj("car", TRUE) >>, << Tag("t", TRUE) >>),
      AnnFile(AnnSize, << Obj("box", TRUE), Obj("car", TRUE) >>, << >>),
      AnnFile(AnnSize, << Obj("car", FALSE), Obj("box", TRUE), Obj("road", TRUE) >>,
              << Tag("t", TRUE) >>),
      AnnFile(AnnSize, << Obj("car", TRUE) >>, << Tag("t", FALSE), Tag("u", TRUE) >>),
      NotJson,
      AnnFile(NoSize, << Obj("car", TRUE), Obj("box", TRUE) >>, << Tag("t", TRUE) >>) }

\* line 582-584: the items of the tree in the order of the walk, as <<dataset, item>>
Items == [k \in 1..(MaxItems + 1) |->
            IF k <= MaxItems THEN << "ds0", k >> ELSE << "ds1", 1 >>]

ClassNames(m) == {c.name : c \in m}

Failed(exc) == [ok |-> FALSE, exc |-> exc, ann |-> NotJson]
Loaded(ann) == [ok |-> TRUE, exc |-> "", ann |-> ann]

\* line 588: sly.Annotation.load_json_file(ann_path, project_fs.meta) needs a JSON file
\* with a size, and every object and every tag to deserialise against the meta
load_json_file(f, m) ==
    IF ~f.json THEN Failed("JSONDecodeError")
    ELSE IF f.size = NoSize THEN Failed("KeyError")
    ELSE IF \E i \in DOMAIN f.objects :
                ~f.objects[i].ok \/ f.objects[i].classTitle \notin ClassNames(m)
         THEN Failed("RuntimeError")
    ELSE IF \E i \in DOMAIN f.tags : ~f.tags[i].ok THEN Failed("RuntimeError")
    ELSE Loaded(f)

KeepsLabel(o, keep) == o.classTitle \in keep

\* a variant that filters nothing
Mut_filter_labels_by_classes(ann, keep) == ann

\* line 589: ann.filter_labels_by_classes(keep_classes)
filter_labels_by_classes(ann, keep) ==
    [ann EXCEPT !.objects = SelectSeq(@, LAMBDA o : KeepsLabel(o, keep))]

\* a variant that returns no annotation for a file without a size
Mut_handle_broken_ann(f, m, keep) ==
    IF ~f.json THEN Failed("JSONDecodeError")
    ELSE Failed("RuntimeError")

\* line 501-547
handle_broken_ann(f, m, keep) ==
    IF ~f.json THEN Failed("JSONDecodeError")                         \* line 512
    ELSE IF f.size = NoSize THEN Failed("RuntimeError")                 \* line 514-515
    ELSE Loaded(AnnFile(f.size,
                        SelectSeq(f.objects,                          \* line 521-531
                                  LAMBDA o : /\ KeepsLabel(o, keep)
                                             /\ o.ok
                                             /\ o.classTitle \in ClassNames(m)),
                        SelectSeq(f.tags, LAMBDA t : t.ok)))          \* line 533-542

\* line 550-558: sly.Annotation.from_img_path(item_path)
create_empty_ann(item) == AnnFile(ImgSize, << >>, << >>)

\* line 568-581: the classes are sorted by geometry and the new meta is computed
CollectClasses ==
    /\ apc = "start"
    /\ keep_classes' = {c.name : c \in {d \in project_meta : d.geometry # Cuboid}}
    /\ remove_classes' = {c.name : c \in {d \in project_meta : d.geometry = Cuboid}}
    /\ meta' = {c \in project_meta : c.name \notin remove_classes'}      \* line 581
    /\ apc' = "items"
    /\ UNCHANGED <<project_meta, ann_files, ann_input, item_idx, tier, logged>>

\* line 584-601: one item of the walk
RepairItem ==
    /\ apc = "items"
    /\ item_idx < Len(ann_files)
    /\ LET i == item_idx + 1
           std == load_json_file(ann_files[i], project_meta)                    \* line 588
           man == handle_broken_ann(ann_files[i], project_meta, keep_classes)   \* line 592
       IN  /\ ann_files' = [ann_files EXCEPT ![i] =                             \* line 601
                  IF std.ok THEN filter_labels_by_classes(std.ann, keep_classes)
                  ELSE IF man.ok THEN man.ann
                  ELSE create_empty_ann(Items[i])]                              \* line 600
           /\ tier' = [tier EXCEPT ![i] = IF std.ok THEN 1 ELSE IF man.ok THEN 2 ELSE 3]
           /\ logged' = IF std.ok \/ man.ok THEN logged                         \* line 594
                        ELSE logged \cup {<< Items[i], man.exc >>}
           /\ item_idx' = i
    /\ UNCHANGED <<apc, project_meta, keep_classes, remove_classes, meta, ann_input>>

\* line 602: project_fs.set_meta(meta), after the last item
SetMeta ==
    /\ apc = "items"
    /\ item_idx = Len(ann_files)
    /\ project_meta' = meta
    /\ apc' = "done"
    /\ UNCHANGED <<keep_classes, remove_classes, meta, ann_files, ann_input, item_idx,
                   tier, logged>>

(***************************************************************************)
(* SpecAnn: check_shapes_in_images_project on a project tree.              *)
(***************************************************************************)
InitAnn ==
    /\ apc = "start"
    /\ project_meta \in Metas
    /\ keep_classes = {}
    /\ remove_classes = {}
    /\ meta = {}
    /\ ann_files \in [DOMAIN Items -> AnnFiles]
    /\ ann_input = ann_files
    /\ item_idx = 0
    /\ tier = [k \in DOMAIN Items |-> 0]
    /\ logged = {}
    /\ FetchIdle /\ MainIdle /\ ReconIdle /\ ResolverIdle /\ DiskIdle /\ PartsIdle

NextAnn ==
    \/ CollectClasses /\ UNCHANGED <<fetchVars, mainVars, reconVars, resolverVars, diskVars, partsVars>>
    \/ RepairItem /\ UNCHANGED <<fetchVars, mainVars, reconVars, resolverVars, diskVars, partsVars>>
    \/ SetMeta /\ UNCHANGED <<fetchVars, mainVars, reconVars, resolverVars, diskVars, partsVars>>

SpecAnn == InitAnn /\ [][NextAnn]_vars


(***************************************************************************)
(* Split-Archive Reassembler: is_tar_part, get_tar_parts, combine_parts.   *)
(* A file name is a sequence of characters, a content a sequence of bytes. *)
(***************************************************************************)
MaxParts == 3          \* parts an archive is split into
MaxArchiveLen == 4     \* bytes of the archive that was split
MaxOthers == 1         \* entries of the directory besides the parts of the archive

AsciiDigits == {"0", "1", "2", "3", "4", "5", "6", "7", "8", "9"}
\* a decimal digit that is not ASCII: ARABIC-INDIC DIGIT ZERO, one character
ArabicZero == "U+0660"
Newline == "\n"

\* line 177: \d of a str pattern matches every Unicode decimal digit; the names of the
\* model hold the ASCII digits and one other
Digits == AsciiDigits \cup {ArabicZero}
Digit(n) == CHOOSE d \in AsciiDigits : d = ToString(n)

\* the name x.tar.NNN of the part with the index n
PartName(n) ==
    << "x", ".", "t", "a", "r", ".",
       Digit(n \div 100), Digit((n \div 10) % 10), Digit(n % 10) >>
CombinedName == << "c", "o", "m", "b", "i", "n", "e", "d", "_", "p", "a", "r", "t", "s",
                   ".", "t", "a", "r" >>                         \* line 207
\* a directory whose name is the name of a part
DirNames == { << "d", ".", "t", "a", "r", ".", "0", "0", "0" >> }
\* entries of the directory that get_tar_parts passes over: no index, a two-digit
\* index, nothing before ".tar", a line break before ".tar", a directory
NoParts == { << "x", ".", "t", "a", "r" >>,
             << "x", ".", "t", "a", "r", ".", "0", "0" >>,
             << ".", "t", "a", "r", ".", "0", "0", "0" >>,
             << "x", Newline, ".", "t", "a", "r", ".", "0", "0", "0" >> } \cup DirNames
\* files that are no part of the archive and that get_tar_parts takes for parts: a part
\* name followed by a line break, an index written with digits that are not ASCII
ForeignParts == { << "x", ".", "t", "a", "r", ".", "0", "0", "0", Newline >>,
                  << "x", ".", "t", "a", "r", ".", ArabicZero, ArabicZero, ArabicZero >> }
OtherNames == NoParts \cup ForeignParts

\* line 177-178: re.match(r".+\.(tar\.\d{3})$", filename): the match starts at the
\* first character, "." matches every character but a line break, and "$" matches at
\* the end of the name or before a line break that ends it
is_tar_part(name) ==
    LET n == Len(name)
        ends == {n} \cup (IF n > 0 /\ name[n] = Newline THEN {n - 1} ELSE {})
    IN  \E e \in ends :
            /\ e >= 9
            /\ \A k \in 1..(e - 8) : name[k] # Newline
            /\ SubSeq(name, e - 7, e - 3) = << ".", "t", "a", "r", "." >>
            /\ \A k \in (e - 2)..e : name[k] \in Digits

\* the entry of a directory in the mapping from the names to the contents
DirEntry == << None >>
\* line 192: os.path.isfile(full_path)
isfile(dir, name) == dir[name] # DirEntry

\* the code point of a character of the names of the model
Code(c) ==
    CASE c = "." -> 46
      [] c = Newline -> 10
      [] c = ArabicZero -> 1632
      [] c \in AsciiDigits -> 48 + (CHOOSE n \in 0..9 : ToString(n) = c)
      [] c = "_" -> 95
      [] OTHER -> 96 + (CHOOSE n \in 1..26 :
                          << "a", "b", "c", "d", "e", "f", "g", "h", "i", "j", "k", "l", "m",
                             "n", "o", "p", "q", "r", "s", "t", "u", "v", "w", "x", "y",
                             "z" >>[n] = c)

\* the order of Python strings
StrLess(a, b) ==
    \E k \in 1..(Len(a) + 1) :
        /\ \A j \in 1..(k - 1) : j <= Len(b) /\ a[j] = b[j]
        /\ k <= Len(b)
        /\ k <= Len(a) => Code(a[k]) < Code(b[k])

\* a variant that leaves the order of the listing
Mut_sorted(s) == s

\* line 206: sorted(parts_paths), for names that differ
RECURSIVE sorted(_)
sorted(s) ==
    IF s = << >> THEN << >>
    ELSE LET m == CHOOSE i \in DOMAIN s : \A j \in DOMAIN s : j # i => StrLess(s[i], s[j])
         IN  << s[m] >> \o sorted(SubSeq(s, 1, m - 1) \o SubSeq(s, m + 1, Len(s)))

RECURSIVE Concat(_, _)
\* line 208-212: the contents of the files named in s, one after the other
Concat(s, dir) == IF s = << >> THEN << >> ELSE dir[Head(s)] \o Concat(Tail(s), dir)

\* line 189-194: get_tar_parts(directory)
GetTarParts ==
    /\ ppc = "list"
    /\ tar_parts' = SelectSeq(listing, LAMBDA n : isfile(directory, n) /\ is_tar_part(n))
    /\ ppc' = "combine"
    /\ UNCHANGED <<original, directory, listing>>

\* line 197-214: combine_parts(tar_parts, directory)
CombineParts ==
    /\ ppc = "combine"
    /\ tar_parts # << >>                                              \* line 317
    /\ LET parts_paths == sorted(tar_parts)
           rest == DOMAIN directory \ Range(parts_paths)              \* line 213
       IN  directory' = [n \in rest \cup {CombinedName} |->
                            IF n = CombinedName THEN Concat(parts_paths, directory)
                            ELSE directory[n]]
    /\ ppc' = "done"
    /\ UNCHANGED <<original, listing, tar_parts>>

\* the ways to cut an archive of l bytes into n parts that are not empty
Cuts(l, n) == {c \in [1..n -> 1..l] : SumSizes(c) = l}
Offset(c, i) == SumSizes(SubSeq(c, 1, i - 1))

\* the directory that holds the parts of the archive a cut by c, and the files of others
SplitDirectory(a, c, others) ==
    [name \in {PartName(i - 1) : i \in DOMAIN c} \cup others |->
        IF name \in DirNames THEN DirEntry
        ELSE IF name \in others THEN << 0 >>
        ELSE LET i == CHOOSE k \in DOMAIN c : PartName(k - 1) = name
             IN  SubSeq(a, Offset(c, i) + 1, Offset(c, i) + c[i])]

Listings(names) ==
    {l \in [1..Cardinality(names) -> names] : \A i, j \in DOMAIN l : l[i] = l[j] => i = j}

(***************************************************************************)
(* SpecParts: the parts of a split archive in a directory are combined.    *)
(***************************************************************************)
InitParts ==
    /\ \E l \in 1..MaxArchiveLen, n \in 1..MaxParts :
       \E c \in Cuts(l, n), others \in {o \in SUBSET OtherNames : Cardinality(o) <= MaxOthers} :
          /\ original = [i \in 1..l |-> i]
          /\ directory = SplitDirectory(original, c, others)
    /\ listing \in Listings(DOMAIN directory)
    /\ tar_parts = << >>
    /\ ppc = "list"
    /\ FetchIdle /\ MainIdle /\ ReconIdle /\ ResolverIdle /\ AnnIdle /\ DiskIdle

NextParts ==
    \/ GetTarParts /\ UNCHANGED <<fetchVars, mainVars, reconVars, resolverVars, annVars, diskVars>>
    \/ CombineParts /\ UNCHANGED <<fetchVars, mainVars, reconVars, resolverVars, annVars, diskVars>>

SpecParts == InitParts /\ [][NextParts]_vars


(***************************************************************************)
(* Properties.                                                             *)
(***************************************************************************)

\* C1 (as stated; SpecFetch): while no data chunk has been received, the fetch has
\* raised InactivityError exactly if 9 transient failures have occurred, and no
\* attempt follows the 9th transient failure.
C1_ExpiredExactlyAtNinthTransient ==
    n_chunks = 0 =>
        /\ (fstate = "expired") <=> (n_transient = 9)
        /\ n_transient <= 9

\* C2 (as stated, for the runs that receive no data chunk; SpecFetch): the third
\* non-transient error of a fetch is fatal, and no attempt follows it.
C2_ThirdUnexpectedErrorIsFatal ==
    n_chunks = 0 =>
        /\ n_other <= 3
        /\ n_other = 3 => fstate = "fatal"

\* C3 (SpecMain): once a fetch has ended in InactivityError, main has returned or is
\* about to return, without an exception, and the only steps of the run are the
\* fetches up to the one that expired.
C3_ExpiredFetchStopsCleanly ==
    /\ fstate = "expired" =>
        /\ pc \in {"fetch_files", "fetch_ann", "returned"}
        /\ error = NoError
        /\ steps \in {<< "fetch_files" >>, << "fetch_ann" >>, << "fetch_files", "fetch_ann" >>}
    /\ pc = "returned" => fstate = "expired"

C3_Witness ==
    /\ pc = "returned"
    /\ fstate = "expired"
    /\ steps = << "fetch_files", "fetch_ann" >>

\* C4 (as stated; SpecFetch): when the fetch returns done, the destination file equals
\* the remote object.
C4_DoneFileEqualsRemote ==
    fstate = "done" => dest_file = remote_obj

\* C5 (as stated; SpecFetch): an attempt whose response has a status other than 206 or
\* a content type that is not accepted writes nothing to the file and is counted as a
\* transient failure.
C5_UnexpectedResponseIsTransient ==
    [][ ( /\ n_attempts' = n_attempts + 1
          /\ last_resp' # NoResp
          /\ \/ last_resp'.status # 206
             \/ last_resp'.ctype \notin available_content_types )
        => ( /\ dest_file' = dest_file
             /\ n_transient' = n_transient + 1 ) ]_vars

\* C6 (as stated; SpecRecon): download_missed_hashes gives up after the initial call
\* and 5 retries, 6 calls in all, and never makes more.
C6_FiveRetriesBeforeGivingUp ==
    /\ calls <= 6
    /\ warned => calls = 6

\* C6 (amended; SpecRecon): download_missed_hashes makes at most 5 batch calls, the
\* initial one and up to 4 retries, and each call after the first follows a failed one;
\* it gives up after 5 calls, no fewer; when the 5th call, too, is answered "Hashes not
\* found" the function does not raise: no further call is made, the warning is logged,
\* it returns normally, and the images left in the batch are absent from the folder.
C6_FiveCallsBeforeGivingUp ==
    /\ calls <= 5
    /\ errors <= calls
    /\ calls <= errors + 1
    /\ warned => (calls = 5 /\ errors = 5 /\ rpc # "raised" /\ rpc # "call")
    /\ (calls = 5 /\ last_reply = "hashes_not_found") =>
          /\ rpc # "raised"
          /\ rpc = "call" =>
                /\ ENABLED GiveUp
                /\ ~ENABLED CallSucceeds
                /\ ~ENABLED CallHashesNotFound
                /\ ~ENABLED CallHTTPError
                /\ ~ENABLED CallRaises
          /\ rpc # "call" => warned
          /\ rpc = "ds_done" => Range(image_destination_pathes) \cap dest = {}

\* the 5th call was answered "Hashes not found" and images are left in the batch
C6_Witness ==
    /\ warned
    /\ rpc = "ds_done"
    /\ calls = 5
    /\ last_reply = "hashes_not_found"
    /\ Len(image_hashes) > 0

\* C7 (as stated; SpecRecon): an HTTP error of the batch fetch that is no "Hashes not
\* found" error leaves download_missed_hashes as an exception at once.
C7_OtherRemoteErrorEscalates ==
    last_reply = "http_error" => rpc = "raised"

\* An image is resolved from the pool when its hash is a key of the index: the pool
\* holds a file whose name decodes to the hash (line 349-350, 365).
LocallyResolvable(h) == \E f \in pool : OriginalName(f) = h

\* the pool file an image with the hash h is copied from
PoolFileOf(h) == CHOOSE f \in pool : OriginalName(f) = h

\* the images of dataset d in the destination folder are those resolvable in the pool
\* or held by the remote store
ResolvableImagesPresent(d) ==
    \A i \in DOMAIN manifest[d].images :
        LET im == manifest[d].images[i]
        IN  (<< manifest[d].name, im.name >> \in dest)
                <=> (LocallyResolvable(im.hash) \/ im.hash \in store)

\* C8 (as stated; SpecRecon): after the reconciliation of a dataset, with a remote
\* store that reported only missing hashes, the destination folder holds exactly the
\* images resolvable in the pool or in the store.
C8_ResolvableImagesPresent ==
    (rpc = "ds_done" /\ honest) => ResolvableImagesPresent(ds_idx)

\* C8 (amended; SpecRecon): the same, for a reconciliation that did not end with the
\* retries used up (fewer than 5 failed batch calls).
C8_ResolvableImagesPresentUnlessGivenUp ==
    (rpc = "ds_done" /\ ~warned) => ResolvableImagesPresent(ds_idx)

C8_Witness ==
    /\ rpc = "ds_done"
    /\ ~warned
    /\ honest
    /\ errors = 4
    /\ manifest[ds_idx].name = "ds1"
    /\ << "ds1", "img1.png" >> \in dest
    /\ << "ds1", "img2.png" >> \notin dest
    /\ << "ds1", "img3.png" >> \in dest

\* the images of dataset d that the pool does not resolve, in manifest order
Unresolved(d) ==
    SelectSeq(manifest[d].images, LAMBDA im : ~LocallyResolvable(im.hash))

\* in the scenario with the hashes "a-b.png" and "c-d.png" and the pool file a-b.png,
\* the first image is copied from the pool and the first batch requests exactly
\* "c-d.png"
DashScenarioResolvedLocally ==
    ( /\ rpc \in {"call", "ds_done"}
      /\ calls >= 1
      /\ manifest[ds_idx].name = "ds1"
      /\ manifest[ds_idx].images = DashScenario
      /\ pool = {HashADashB} )
    => ( /\ << "ds1", "img1.png", HashADashB >> \in copies
         /\ first_call.hashes = << HashCDashD >> )

\* the batch of a dataset is issued once
BatchIssuedOnce == calls <= 1

\* C9 (as stated; SpecRecon): the scenario written with dashes is resolved from the
\* pool, and the batch of a dataset is issued once.
C9_ScenarioAndSingleBatch == DashScenarioResolvedLocally /\ BatchIssuedOnce

\* C9 (amended; SpecRecon): after the local copies of a dataset, the images copied
\* are those whose hash is a key of the index decoded from the names of the pool
\* files, each from its file; the first batch call holds exactly the other images, in
\* manifest order, and no call is made when there is none; a further call follows
\* only a failed one.  So with the hashes "a/b.png" and "c/d.png" and the pool file
\* a-b.png, img1.png is copied from a-b.png and the first batch requests exactly
\* "c/d.png".
C9_BatchIsTheUnresolvedImages ==
    /\ calls <= errors + 1
    /\ rpc \in {"call", "ds_done"} =>
        LET ds == manifest[ds_idx]
            missed == Unresolved(ds_idx)
        IN  /\ {c \in copies : c[1] = ds.name} =
                   {<< ds.name, ds.images[i].name, PoolFileOf(ds.images[i].hash) >> :
                       i \in {j \in DOMAIN ds.images : LocallyResolvable(ds.images[j].hash)}}
            /\ calls >= 1 =>
                   /\ first_call.hashes = [i \in DOMAIN missed |-> missed[i].hash]
                   /\ first_call.paths = [i \in DOMAIN missed |-> << ds.name, missed[i].name >>]
            /\ (calls = 0 /\ rpc = "ds_done") => missed = << >>
            /\ (calls = 0 /\ rpc = "call") => missed # << >>

\* the scenario with the keys written with separators
C9_Witness ==
    /\ rpc = "ds_done"
    /\ manifest[ds_idx].name = "ds1"
    /\ manifest[ds_idx].images = << CatalogImage(1), CatalogImage(2) >>
    /\ pool = {HashADashB}
    /\ << "ds1", "img1.png", HashADashB >> \in copies
    /\ calls = 1
    /\ first_call.hashes = << HashCSlashD >>
    /\ dest = {<< "ds0", "img1.png" >>, << "ds1", "img1.png" >>, << "ds1", "img2.png" >>}

\* the index has been built from the blob name of the key
IndexBuilt == blob_name # NoName /\ DOMAIN index # {}

\* a separator of the key lies after the dot that starts an extension
SeparatorInExtension(k) ==
    LET d == RFind(k, ".")
    IN  /\ \E i \in 1..(d - 1) : k[i] # "."
        /\ \E i \in (d + 1)..Len(k) : k[i] = "/"

\* C10 (as stated; SpecResolver): for a key without a dash, the index built from its
\* blob name maps the key to the blob.
C10_DashFreeKeyRoundTrips ==
    (IndexBuilt /\ "-" \notin Range(key)) =>
        (key \in DOMAIN index /\ index[key] = blob_name)

\* C10 (amended; SpecResolver): the same, for a key without a dash that has no
\* separator after the dot of an extension.
C10_RoundTripWithoutSeparatorInExtension ==
    (IndexBuilt /\ "-" \notin Range(key) /\ ~SeparatorInExtension(key)) =>
        (key \in DOMAIN index /\ index[key] = blob_name)

C10_Witness ==
    /\ IndexBuilt
    /\ key = << "/", "a", "/", "a" >>
    /\ blob_name = << "-", "a", "-", "a" >>
    /\ index[key] = blob_name

(***************************************************************************)
(* Annotation Repair (SpecAnn).                                            *)
(***************************************************************************)
MissingSize(f) == f.json /\ f.size = NoSize

\* C11: an annotation that is valid JSON without an image size is repaired
\* by no fallback: nothing is ever written for its item, no placeholder either.
C11_MissingSizeIsNeverRepaired ==
    \A i \in DOMAIN ann_input :
        MissingSize(ann_input[i]) => tier[i] = 0 /\ ann_files[i] = ann_input[i]

StructurallyValid(f) ==
    /\ f.json
    /\ f.size # NoSize
    /\ \A k \in DOMAIN f.objects : f.objects[k].ok
    /\ \A k \in DOMAIN f.tags : f.tags[k].ok

\* the record the cascade is to leave for an annotation file that has its size or is
\* not JSON: the entries that deserialise, or the placeholder sized from the image
Repaired(f) ==
    IF f.json
    THEN AnnFile(f.size,
                 SelectSeq(f.objects, LAMBDA o : o.ok /\ o.classTitle \in keep_classes),
                 SelectSeq(f.tags, LAMBDA t : t.ok))
    ELSE AnnFile(ImgSize, << >>, << >>)

UnsupportedNames == {c.name : c \in {d \in UNION Metas : d.geometry = Cuboid}}

HasLabelOf(f, names) == \E k \in DOMAIN f.objects : f.objects[k].classTitle \in names

\* C19: when the repair of an image project has ended, the meta stored in the project
\* has no class of an unsupported geometry, and no annotation of any item, whichever
\* tier produced it, has a label of such a class.
C19_NoUnsupportedGeometryAfterRepair ==
    apc = "done" =>
        /\ \A c \in project_meta : c.geometry # Cuboid
        /\ \A i \in DOMAIN ann_files : ~HasLabelOf(ann_files[i], UnsupportedNames)

\* a project with a Cuboid class, labels of it in a file the standard load accepts and
\* in a file repaired entry by entry
C19_Witness ==
    /\ apc = "done"
    /\ remove_classes # {}
    /\ \E i, j \in DOMAIN ann_input :
          /\ tier[i] = 1 /\ HasLabelOf(ann_input[i], remove_classes)
          /\ tier[j] = 2 /\ HasLabelOf(ann_input[j], remove_classes)

(***************************************************************************)
(* Disk-Space Guard (SpecDisk).                                            *)
(***************************************************************************)
\* the bytes the source needs: the bytes of its files
RequiredBytes == IF source.isdir
                 THEN SumSizes(source.sizes)
                 ELSE source.sizes[1]

\* C16: check_disk_space returns ok exactly when the free bytes at the destination are
\* strictly more than the required bytes; with as many or fewer it fails.
C16_OkExactlyWhenStrictlyMoreFree ==
    disk_result # NoResult =>
        /\ free_space > RequiredBytes => disk_result = << TRUE >>
        /\ free_space <= RequiredBytes => disk_result = << FALSE >>

\* the boundary: as many bytes free as required
C16_Witness ==
    /\ disk_result = << FALSE >>
    /\ source.isdir /\ Len(source.sizes) = 2
    /\ free_space = RequiredBytes
    /\ free_space > 0

(***************************************************************************)
(* Pipeline Orchestrator, later steps (SpecMain).                          *)
(***************************************************************************)
Ran(step) == \E k \in DOMAIN steps : steps[k] = step

\* C13 (as stated): in a run of an image project, packaging and the upload are each
\* preceded by the repair (check_shapes); in a run of another kind the repair never runs.
C13_RepairBeforePackagingOrHandoff ==
    /\ project_type = "images" =>
          \A k \in DOMAIN steps :
              steps[k] \in {"packaging", "upload"} =>
                  \E j \in 1..(k - 1) : steps[j] = "check_shapes"
    /\ project_type # "images" => ~Ran("check_shapes")

\* C13 (amended): the repair runs only in upload mode, for an image project, directly
\* before the upload; a run that reaches packaging (download mode) has not run it; a
\* run of another kind of project never runs it.
C13_RepairOnlyBeforeUpload ==
    /\ project_type = "images" =>
          \A k \in DOMAIN steps :
              steps[k] = "upload" => k > 1 /\ steps[k - 1] = "check_shapes"
    /\ Ran("packaging") => ~Ran("check_shapes")
    /\ project_type # "images" => ~Ran("check_shapes")

C13_Witness ==
    /\ pc = "done"
    /\ project_type = "images"
    /\ Ran("check_shapes") /\ Ran("upload")

\* C14: when main() ends with one of the fatal conditions (a failed transfer, an
\* unrecognized or corrupt archive, a storage shortage, a legacy dataset without
\* annotations), the error carries the troubleshooting guidance.
C14_FatalConditionsCarryGuidance ==
    (/\ pc = "raised"
     /\ \/ steps[Len(steps)] \in {"fetch_files", "fetch_ann"}
        \/ error.kind \in {"ValueError", "NotEnoughDiskSpaceError"}
        \/ steps[Len(steps)] = "extract"
        \/ error.ds # "")
    => error.link

\* C15 (as stated): every extraction (of a downloaded archive or of the archive combined
\* from parts) and the packaging come directly after a guard that returned ok; a guard
\* that reports a shortage is the last thing the run does, and the archive is still there.
GuardThenRaise ==
    \A k \in DOMAIN steps :
        steps[k] = "disk_short" =>
            /\ k = Len(steps)
            /\ pc = "raised"
            /\ error = Raised("NotEnoughDiskSpaceError", TRUE)
            /\ steps[k - 1] = "unzip_files" => FilesArchive \in archives
            /\ steps[k - 1] = "unzip_ann" => AnnArchive \in archives

C15_GuardBeforeEveryExtraction ==
    /\ \A k \in DOMAIN steps :
          steps[k] \in {"extract", "extract_combined", "archive"} =>
              k > 1 /\ steps[k - 1] = "disk_ok"
    /\ GuardThenRaise

\* C15 (amended): the extraction of a downloaded archive and the packaging come directly
\* after a guard that returned ok, and a guard that reports a shortage is the last thing
\* the run does; the archive combined from parts is written and extracted with no guard
\* of its own, after the downloaded archive was removed.
C15_GuardBeforeDownloadedArchives ==
    /\ \A k \in DOMAIN steps :
          /\ steps[k] \in {"extract", "archive"} => k > 1 /\ steps[k - 1] = "disk_ok"
          /\ steps[k] = "extract_combined" =>
                k > 2 /\ steps[k - 1] = "combine_parts" /\ steps[k - 2] = "remove_archive"
    /\ GuardThenRaise

\* a run that extracted both archives, one of them with parts, and packaged
C15_Witness ==
    /\ pc = "done"
    /\ Ran("extract_combined")
    /\ Ran("unzip_ann")
    /\ Ran("archive")

\* C18: in the legacy branch a dataset folder is moved only if every dataset folder has
\* a non-empty "ann" directory; otherwise the check raises FileNotFoundError naming the
\* first folder without one, nothing has been moved, and no later step runs.
LegacyRun == project_type = "images" /\ Ran("legacy_check")

C18_LegacyMoveOnlyWithAnnotations ==
    LegacyRun =>
        /\ \A d \in proj_dirs : d.ann = "files"
        /\ Ran("move_files") =>
              \A i \in DOMAIN pool_dirs : pool_dirs[i].ann = "files"
        /\ (\E i \in DOMAIN pool_dirs : pool_dirs[i].ann # "files") =>
              /\ pc = "raised"
              /\ error.kind = "FileNotFoundError"
              /\ \E i \in DOMAIN pool_dirs :
                    /\ error.ds = pool_dirs[i].name
                    /\ pool_dirs[i].ann # "files"
              /\ proj_dirs = {}
              /\ steps[Len(steps)] = "legacy_check"

\* the second dataset folder is the one without annotations
C18_Witness ==
    /\ LegacyRun
    /\ pc = "raised"
    /\ Len(pool_dirs) = 2
    /\ pool_dirs[1].ann = "files" /\ pool_dirs[2].ann = "missing"
    /\ error.ds = pool_dirs[2].name

(***************************************************************************)
(* Split-Archive Reassembler (SpecParts).                                  *)
(***************************************************************************)
IsSplitPart(n) == \E i \in 0..(MaxParts - 1) : n = PartName(i)

\* C17: get_tar_parts selects the parts of the archive among the entries of the
\* directory, with every other file whose name the pattern accepts; whatever the order
\* of the listing, when combine_parts has returned for a directory whose part files
\* are the parts of the archive, the combined archive equals the archive that was
\* split, byte for byte; in every case none of the parts is left in the directory, and
\* the entries that are no parts are as they were.
C17_CombinedEqualsOriginal ==
    /\ ppc \in {"combine", "done"} =>
          Range(tar_parts) = {n \in Range(listing) : IsSplitPart(n) \/ n \in ForeignParts}
    /\ ppc = "done" =>
          /\ CombinedName \in DOMAIN directory
          /\ Range(listing) \cap ForeignParts = {} => directory[CombinedName] = original
          /\ \A n \in Range(tar_parts) : n \notin DOMAIN directory
          /\ \A n \in Range(listing) \cap NoParts :
                /\ n \in DOMAIN directory
                /\ directory[n] = IF n \in DirNames THEN DirEntry ELSE << 0 >>

\* three parts, listed in an order that is not the ascending one, with a directory
\* that bears the name of a part
C17_Witness ==
    /\ ppc = "done"
    /\ Len(tar_parts) >= 3
    /\ tar_parts[1] = PartName(2) /\ tar_parts[2] = PartName(0)
    /\ Range(listing) \cap DirNames # {}
    /\ directory[CombinedName] = original

(***************************************************************************)
(* Content Reconciler, the batch (SpecRecon).                              *)
(***************************************************************************)
\* the positions of the first batch whose hash no "Hashes not found" answer has named
KeptPositions == {i \in DOMAIN first_call.hashes : first_call.hashes[i] \notin reported}
KeptPosition(k) ==
    CHOOSE i \in KeptPositions : Cardinality({j \in KeptPositions : j < i}) = k - 1

\* the image of the dataset at hand that the k-th entry of the batch stands for
OwnImage(k) ==
    \E i \in DOMAIN manifest[ds_idx].images :
        /\ manifest[ds_idx].images[i].hash = image_hashes[k]
        /\ image_destination_pathes[k] = << manifest[ds_idx].name, manifest[ds_idx].images[i].name >>

\* C20: once the first call of a dataset is made, the batch is exactly the first batch
\* without the entries whose hash a "Hashes not found" answer named, in the original
\* order; the hash list and the path list have the same length, and each hash is paired
\* with the destination path of its own image.
C20_NarrowingIsExact ==
    (rpc \in {"call", "ds_done"} /\ calls >= 1) =>
        /\ Len(image_hashes) = Cardinality(KeptPositions)
        /\ Len(image_destination_pathes) = Len(image_hashes)
        /\ \A k \in DOMAIN image_hashes :
              /\ image_hashes[k] = first_call.hashes[KeptPosition(k)]
              /\ image_destination_pathes[k] = first_call.paths[KeptPosition(k)]
              /\ OwnImage(k)

\* two answers have named hashes, from the middle of the batch, and entries are left
C20_Witness ==
    /\ rpc = "call"
    /\ calls = 2
    /\ Len(first_call.hashes) >= 4
    /\ first_call.hashes[2] \in reported
    /\ first_call.hashes[1] \notin reported
    /\ Len(image_hashes) >= 2
    /\ image_hashes[2] = first_call.hashes[4]


(***************************************************************************)
(* Archive Extractor, the source archive (SpecMain).                       *)
(***************************************************************************)
\* unzip_archive ran as the step p and reached the removal of its archive
RemovedIn(p) ==
    \E k \in DOMAIN steps :
        /\ steps[k] = p
        /\ k + 3 <= Len(steps)
        /\ steps[k + 2] = "extract"
        /\ steps[k + 3] = "remove_archive"

\* os.remove(archive_path) of the step p was reached and raised (line 315)
RemovalFailed(p) ==
    /\ pc = "raised"
    /\ error.kind = "OSError"
    /\ Len(steps) >= 4
    /\ steps[Len(steps)] = "remove_archive"
    /\ steps[Len(steps) - 3] = p

\* the run has removed the project directory, and the archives in it (line 497, 628)
ProjectDirRemoved == Ran("upload_archive") \/ (pc = "done" /\ Ran("upload"))

\* C21: unzip_archive removes the archive directly after its extraction, and only then;
\* an extraction that is the last thing the run did has failed, an unsupported format is
\* met before any extraction, and in both cases the run has raised and the archive is
\* in place; an archive that was downloaded and unpacked is gone exactly if its removal
\* was reached and os.remove did not itself raise; an annotations archive that unzip_archive has not removed is in place
\* until the run removes the whole project directory at its end.
C21_ArchiveRemovedOnlyAfterExtraction ==
    /\ \A k \in DOMAIN steps :
          /\ steps[k] = "remove_archive" => k > 1 /\ steps[k - 1] = "extract"
          /\ (steps[k] = "extract" /\ k < Len(steps)) => steps[k + 1] = "remove_archive"
          /\ (steps[k] = "extract" /\ k = Len(steps)) =>
                /\ pc = "raised"
                /\ error = Raised("Exception", TRUE)
                /\ steps[k - 2] = "unzip_files" => FilesArchive \in archives
                /\ steps[k - 2] = "unzip_ann" => AnnArchive \in archives
    /\ error.kind = "ValueError" =>
          /\ pc = "raised"
          /\ steps[Len(steps)] = "disk_ok"
          /\ steps[Len(steps) - 1] = "unzip_files" => FilesArchive \in archives
          /\ steps[Len(steps) - 1] = "unzip_ann" => AnnArchive \in archives
    /\ (Ran("unzip_files") /\ has_files_url) =>
          (FilesArchive \notin archives <=>
              (RemovedIn("unzip_files") /\ ~RemovalFailed("unzip_files")))
    /\ Ran("unzip_ann") =>
          (AnnArchive \notin archives <=>
              (RemovedIn("unzip_ann") /\ ~RemovalFailed("unzip_ann")))
    /\ (Ran("unzip_files") /\ has_ann_url /\ ~RemovedIn("unzip_ann")) =>
          (AnnArchive \notin archives <=> ProjectDirRemoved)

\* the files archive was unpacked and removed, the annotations archive failed to decode
C21_Witness ==
    /\ pc = "raised"
    /\ RemovedIn("unzip_files")
    /\ steps[Len(steps)] = "extract"
    /\ AnnArchive \in archives


(***************************************************************************)
(* Retrying Fetcher, the timeout and the end of the loop (SpecFetch).      *)
(***************************************************************************)
Timeouts == {10 * k : k \in 1..9}

\* what one step of a fetch does to the timeout
TimeoutStep ==
    /\ n_transient' = n_transient + 1 =>
          timeout' = IF timeout < 90 THEN timeout + 10 ELSE timeout
    /\ n_transient' = n_transient => timeout' = timeout

\* C22: the timeout is 10 until the first transient failure, lies in {10, 20, ..., 90}
\* in every state, grows by exactly 10 with each transient failure while it is below 90,
\* and is left alone by every other step, received data included.
C22_TimeoutGrowsToCap ==
    /\ [](timeout \in Timeouts /\ (n_transient = 0 => timeout = 10))
    /\ [][TimeoutStep]_vars

\* the cap is met: transient failures go on at 90 after data reset the counter
C22_Witness ==
    /\ fstate = "running"
    /\ timeout = 90
    /\ n_transient > 8
    /\ n_chunks > 0
    /\ retry_attemp < 8

\* C23: a fetch that has received no data does not go on after 11 failed attempts: the
\* 9th transient failure or the 3rd other failure, whichever comes first, ends it.
C23_NoProgressEndsTheLoop ==
    (n_chunks = 0 /\ n_attempts >= 11) => fstate # "running"

=============================================================================
